---- MODULE Spec2Model ----
(***************************************************************************)
(* Model of the DIRAC sandbox store client (SandboxStoreClient.py), of the  *)
(* remote logging backend (RemoteBackend.py) and of the identity provider  *)
(* base class (IdProvider.py).                                             *)
(*                                                                         *)
(* Python values are modelled as follows:                                  *)
(*   - an S_OK / S_ERROR result is a record with the fields OK, Value,     *)
(*     Message and SandboxFileName ("None" or <<>> where the key is absent);*)
(*   - a dict is the sequence of its <<key, value>> pairs in insertion     *)
(*     order (the order in which "for key in d" visits them);              *)
(*   - a text whose characters matter (a sandbox location) is a sequence   *)
(*     of one-character strings;                                           *)
(*   - the outcome of a call into the operating system or into a remote    *)
(*     service is an input of the action, drawn from the outcomes the call *)
(*     can produce.                                                        *)
(***************************************************************************)
EXTENDS Integers, Sequences, FiniteSets, TLC

VARIABLES
    upPc,       \* upload: "call" before the upload runs, "returned" or "raised" after it
    upArgs,     \* upload: the fileList and sizeLimit the caller passes, and the disk
                \*         as it is before the call
    fs,         \* upload: the staging temp files that exist on disk
    upOut,      \* upload: the call made (op, assignTo) and what it did
                \*         (result, staging path, sendFile calls)
    dlPc,       \* download: "call" before downloadSandbox runs, "returned"/"raised" after
    dlArgs,     \* download: the sbLocation the caller passes
    dlOut,      \* download: the flags of the call and what it did (result, temp
                \*           directory, what is left on disk, storage fetches)
    smdb,       \* the class attribute SandboxStoreClient.__smdb
    clients,    \* the clients constructed so far, each with its smdb argument and
                \* the value __smdb had when its constructor returned
    initLog,    \* history: how many times lines 44-54 ran, and whether a run failed
    ctor,       \* the constructor call a second thread is in: its position, or idle
    registry,   \* the service's assignment records: entity -> <<location, type>>*
    jobPc,      \* "call" until a job operation has run, then "returned"
    jobOut,     \* the last job operation: its arguments, the service calls and
                \* storage fetches it made, and its result
    rb,         \* a RemoteBackend: its message queue, the position and the bundle
                \* of its thread, what the log server has received, and the
                \* flush() call of a caller
    idp         \* the IdProvider class: the dict DEFAULT_METADATA refers to and
                \* the instances constructed so far

upVars == <<upPc, upArgs, fs, upOut>>

dlVars == <<dlPc, dlArgs, dlOut>>

jobVars == <<smdb, clients, initLog, ctor, registry, jobPc, jobOut>>

otherVars == <<rb, idp>>

vars == <<upVars, dlVars, jobVars, otherVars>>

None == "None"

\* the values of the class attribute __smdb and the objects a service call is
\* made on: None, False, an object of the caller's, the service client (n = 0)
\* or the n-th SandboxMetadataDB instance made by line 47
Obj(kind) == [kind |-> kind, n |-> 0]

\* ---------------------------------------------------------------- bounds
\* longest fileList handed to uploadFilesAsSandbox
MaxFiles == 2

\* longest sandbox location (in characters) handed to downloadSandbox
MaxLocLen == 5

\* most clients constructed in one process
MaxClients == 2

\* longest sbList handed to assignSandboxesToJob
MaxSbList == 2

\* most sandboxes an entity holds before the operation under check
MaxRecord == 2

\* ------------------------------------------------------- result records
S_OK(v) == [OK |-> TRUE, Value |-> v, Message |-> <<>>, SandboxFileName |-> None]

S_ERROR(m) == [OK |-> FALSE, Value |-> None, Message |-> m, SandboxFileName |-> None]

\* --------------------------------- the variables before any call is made
UpNoArgs == [fileList |-> [isList |-> TRUE, items |-> <<>>], sizeLimit |-> 0, disk |-> {}]

UpIdle == [op |-> None, assignTo |-> <<>>, result |-> S_ERROR(<<>>),
           tmpFilePath |-> None, size |-> 0, sent |-> <<>>, oserror |-> FALSE]

DlIdle == [inMemory |-> FALSE, unpack |-> FALSE, result |-> S_ERROR(<<>>),
           tmpSBDir |-> None, dirLeft |-> FALSE, fileLeft |-> FALSE, fetched |-> <<>>]

JobIdle == [op |-> None, client |-> 0, jobId |-> <<>>, sbType |-> None, sbList |-> <<>>,
            ownerName |-> "", ownerGroup |-> "", inMemory |-> FALSE, unpack |-> FALSE,
            calls |-> <<>>, downloads |-> <<>>, fetched |-> <<>>,
            result |-> S_ERROR(<<>>)]

\* no RemoteBackend has been constructed
RbOff == [pc |-> "off"]

\* the keys of the provider metadata; a dict is the record of its values,
\* Absent standing for a key the dict does not hold
MetaKeys == {"ProviderName", "issuer"}

Absent == "<absent>"

EmptyDict == [k \in MetaKeys |-> Absent]

\* the IdProvider class as its class body leaves it (line 14), no instance
IdpFresh == [meta |-> EmptyDict, instances |-> <<>>]

\* the logging backend and the identity providers are not in use
OtherClassesIdle == rb = RbOff /\ idp = IdpFresh

\* no constructor call is under way
CtorIdle == [pc |-> "idle"]

\* the class attribute as the class body sets it (line 23), no client, no
\* initialisation run, no record
NoJobState ==
    /\ smdb = Obj(None) /\ clients = <<>> /\ initLog = [runs |-> 0, failed |-> FALSE]
    /\ ctor = CtorIdle
    /\ registry = <<>> /\ jobPc = "off" /\ jobOut = JobIdle

\* ------------------------------------------------------ sequence helpers
RECURSIVE SelectSeqBy(_, _)
\* the subsequence of s whose elements lie in the set keep
SelectSeqBy(s, keep) ==
    IF s = <<>> THEN <<>>
    ELSE IF Head(s) \in keep THEN <<Head(s)>> \o SelectSeqBy(Tail(s), keep)
         ELSE SelectSeqBy(Tail(s), keep)

SeqsUpTo(S, n) == UNION {[1..k -> S] : k \in 0..n}

Range(s) == {s[i] : i \in 1..Len(s)}

\* =========================================================== upload
validSandboxTypes == {"Input", "Output"}

\* the local paths that exist on the caller's disk (os.path.exists)
LocalFiles == {"a.txt", "sub/b.txt"}

\* the strings matched by re.search("^lfn:", s, re.IGNORECASE)
LfnStrings == {"LFN:/vo/in.dat"}

StrItems == {[type |-> "str", v |-> s] :
                s \in LfnStrings \cup LocalFiles \cup {"gone1", "gone2"}}

StringIOItem == [type |-> "StringIO", v |-> "jdl"]

BytesItem == [type |-> "bytes", v |-> "raw"]

FileItems == StrItems \cup {StringIOItem, BytesItem}

\* fileList arguments: a list/tuple of items, or something that is neither
FileLists == {[isList |-> TRUE, items |-> s] : s \in SeqsUpTo(FileItems, MaxFiles)}
             \cup {[isList |-> FALSE, items |-> <<>>]}

\* assignTo arguments (dicts in insertion order)
\* job ids as the caller passes them: an int or a str, with its decimal digits
JobIds == {[type |-> "int", digits |-> <<"7">>],
           [type |-> "int", digits |-> <<"4", "2">>],
           [type |-> "str", digits |-> <<"4", "2">>]}

\* f"Job:{jobId}"
EntityId(jobId) == <<"J", "o", "b", ":">> \o jobId.digits

SandboxTypeArgs == validSandboxTypes \cup {"Bogus"}

Job7 == EntityId([type |-> "int", digits |-> <<"7">>])

Job42 == EntityId([type |-> "int", digits |-> <<"4", "2">>])

AssignMaps == { <<>>,
                << <<Job7, "Input">> >>,
                << <<Job7, "Bogus">> >>,
                << <<Job7, "Output">>, <<Job42, "Bogus">> >>,
                << <<Job7, "Output">>, <<Job42, "Input">> >> }

SizeLimits == {0, 2}

ArchiveSizes == {1, 2, 3}

\* mkstemp(prefix="LDSB.") names, in the order the allocator tries them
TmpNames == <<"LDSB.1", "LDSB.2">>

\* what os.stat reports for the local files while the archive is built
\* (modification time, mode, owner): tf.add copies it into the member's header
FileStats == {"stat1", "stat2"}

\* the header fields tarfile.TarInfo(name=...) starts with (line 131)
DefaultStat == "default"

\* outcomes of the environment during one upload
UploadEnvs == [mkstemp : BOOLEAN,        \* mkstemp/os.close succeed
               stat    : FileStats,      \* os.stat of the local files
               tar     : BOOLEAN,        \* building the archive succeeds
               size    : ArchiveSizes,   \* getGlobbedTotalSize(tmpFilePath)
               send    : BOOLEAN,        \* sendFile's result["OK"]
               unlink  : BOOLEAN]        \* os.unlink succeeds


\* os.path.basename of the local paths
basename(p) == IF p = "sub/b.txt" THEN "b.txt" ELSE p

\* lines 95-97: the first value of assignTo that is no valid sandbox type
InvalidAssignType(assignTo) ==
    LET bad == {i \in 1..Len(assignTo) : assignTo[i][2] \notin validSandboxTypes}
    IN  IF bad = {} THEN None
        ELSE assignTo[CHOOSE i \in bad : \A j \in bad : i <= j][2]

RECURSIVE ScanFileList_firstMissing(_, _, _)
\* mutant: the scan ends at the first local path that does not exist
ScanFileList_firstMissing(items, files2Upload, errorFiles) ==
    IF items = <<>>
    THEN [unsupported |-> None, files2Upload |-> files2Upload, errorFiles |-> errorFiles]
    ELSE LET sFile == Head(items) IN
         IF sFile.type = "str"
         THEN IF sFile.v \in LfnStrings
              THEN ScanFileList_firstMissing(Tail(items), files2Upload, errorFiles)
              ELSE IF sFile.v \in LocalFiles
                   THEN ScanFileList_firstMissing(Tail(items), Append(files2Upload, sFile),
                                                  errorFiles)
                   ELSE [unsupported |-> None, files2Upload |-> files2Upload,
                         errorFiles |-> Append(errorFiles, sFile.v)]
         ELSE IF sFile.type = "StringIO"
              THEN ScanFileList_firstMissing(Tail(items), Append(files2Upload, sFile),
                                             errorFiles)
              ELSE [unsupported |-> sFile.type, files2Upload |-> files2Upload,
                    errorFiles |-> errorFiles]

RECURSIVE ScanFileList(_, _, _)
\* lines 102-115: sort the items into files2Upload and errorFiles, stopping at
\* the first item that is neither a str nor a StringIO
ScanFileList(items, files2Upload, errorFiles) ==
    IF items = <<>>
    THEN [unsupported |-> None, files2Upload |-> files2Upload, errorFiles |-> errorFiles]
    ELSE LET sFile == Head(items) IN
         IF sFile.type = "str"
         THEN IF sFile.v \in LfnStrings
              THEN ScanFileList(Tail(items), files2Upload, errorFiles)
              ELSE IF sFile.v \in LocalFiles
                   THEN ScanFileList(Tail(items), Append(files2Upload, sFile), errorFiles)
                   ELSE ScanFileList(Tail(items), files2Upload, Append(errorFiles, sFile.v))
         ELSE IF sFile.type = "StringIO"
              THEN ScanFileList(Tail(items), Append(files2Upload, sFile), errorFiles)
              ELSE [unsupported |-> sFile.type, files2Upload |-> files2Upload,
                    errorFiles |-> errorFiles]

\* lines 120-124: the name mkstemp returns, None when no name is free
mkstemp(disk) ==
    LET free == {i \in 1..Len(TmpNames) : TmpNames[i] \notin disk}
    IN  IF free = {} THEN None
        ELSE TmpNames[CHOOSE i \in free : \A j \in free : i <= j]

RECURSIVE TarMembers(_, _)
\* lines 127-136: the members added to the archive, in order, each with its
\* header (name and file metadata) and its content; the content of a local
\* file is named by its path
TarMembers(files2Upload, stat) ==
    IF files2Upload = <<>> THEN <<>>
    ELSE LET sFile == Head(files2Upload) IN
         (IF sFile.type = "str"
          THEN <<[name |-> basename(sFile.v), stat |-> stat, data |-> sFile.v]>>
          ELSE <<[name |-> "jobDescription.xml", stat |-> DefaultStat,
                  data |-> sFile.v]>>)
         \o TarMembers(Tail(files2Upload), stat)

\* lines 145-153: the canonical name handed to sendFile; the MD5 digest of
\* the archive's bytes is modelled by the archive itself (equal bytes, equal
\* digest)
CanonicalName(archive) == [digest |-> archive, suffix |-> ".tar.bz2"]

\* what one upload call did: how it ended ("returned", or "raised" when an
\* exception left it), its result, the staging file it created (None: none),
\* the size of the archive it built (0: it built none), the disk afterwards,
\* the sendFile calls it made, and whether it swallowed an OSError (line 158)
UpOutcome(pc, result, tmpFilePath, size, disk, sent) ==
    [pc |-> pc, result |-> result, tmpFilePath |-> tmpFilePath, size |-> size,
     fs |-> disk, sent |-> sent, oserror |-> FALSE]

\* mutant: the limit is compared without the "sizeLimit > 0" guard
OverLimit_noZeroGuard(sizeLimit, size) == size > sizeLimit

\* lines 138-143: the size check
OverLimit(sizeLimit, size) == sizeLimit > 0 /\ size > sizeLimit

\* mutant: the staging file is unlinked whatever sendFile answered
SendAndCleanup_unlinkAlways(tmpFilePath, archive, assignTo, env, disk) ==
    LET call   == [path |-> tmpFilePath, name |-> CanonicalName(archive),
                   assignTo |-> assignTo]
        reply  == IF env.send THEN S_OK(<<"sent">>) ELSE S_ERROR(<<"transfer failed">>)
        result == [reply EXCEPT !.SandboxFileName = tmpFilePath]
        disk2  == IF env.unlink THEN disk \ {tmpFilePath} ELSE disk
    IN  [UpOutcome("returned", result, tmpFilePath, env.size, disk2, <<call>>)
            EXCEPT !.oserror = ~env.unlink]

\* mutant: the bundle is sent under its name alone, the assignment being left
\* for a later call
SendAndCleanup_nameOnly(tmpFilePath, archive, assignTo, env, disk) ==
    LET call   == [path |-> tmpFilePath, name |-> CanonicalName(archive),
                   assignTo |-> <<>>]
        reply  == IF env.send THEN S_OK(<<"sent">>) ELSE S_ERROR(<<"transfer failed">>)
        result == [reply EXCEPT !.SandboxFileName = tmpFilePath]
        disk2  == IF result.OK /\ env.unlink THEN disk \ {tmpFilePath} ELSE disk
    IN  [UpOutcome("returned", result, tmpFilePath, env.size, disk2, <<call>>)
            EXCEPT !.oserror = result.OK /\ ~env.unlink]

\* lines 152-160: transfer, and removal of the staging file
SendAndCleanup(tmpFilePath, archive, assignTo, env, disk) ==
    LET call   == [path |-> tmpFilePath, name |-> CanonicalName(archive),
                   assignTo |-> assignTo]
        reply  == IF env.send THEN S_OK(<<"sent">>) ELSE S_ERROR(<<"transfer failed">>)
        result == [reply EXCEPT !.SandboxFileName = tmpFilePath]
        disk2  == IF result.OK /\ env.unlink THEN disk \ {tmpFilePath} ELSE disk
    IN  [UpOutcome("returned", result, tmpFilePath, env.size, disk2, <<call>>)
            EXCEPT !.oserror = result.OK /\ ~env.unlink]

\* mutant: a rejected archive is removed like any other staging file
BuildAndSend_cleanupOnReject(files2Upload, sizeLimit, assignTo, env, tmpFilePath, disk) ==
    IF ~env.tar
    THEN UpOutcome("raised", S_ERROR(<<"tarfile error">>), tmpFilePath, 0, disk, <<>>)
    ELSE IF OverLimit(sizeLimit, env.size)
         THEN UpOutcome("returned",
                        [S_ERROR(<<"Size over the limit">>) EXCEPT !.SandboxFileName = tmpFilePath],
                        tmpFilePath, env.size, disk \ {tmpFilePath}, <<>>)
         ELSE SendAndCleanup(tmpFilePath, TarMembers(files2Upload, env.stat), assignTo, env,
                             disk)

\* lines 126-160: from the created staging file on
BuildAndSend(files2Upload, sizeLimit, assignTo, env, tmpFilePath, disk) ==
    IF ~env.tar
    THEN UpOutcome("raised", S_ERROR(<<"tarfile error">>), tmpFilePath, 0, disk, <<>>)
    ELSE IF OverLimit(sizeLimit, env.size)
         THEN UpOutcome("returned",
                        [S_ERROR(<<"Size over the limit">>) EXCEPT !.SandboxFileName = tmpFilePath],
                        tmpFilePath, env.size, disk, <<>>)
         ELSE SendAndCleanup(tmpFilePath, TarMembers(files2Upload, env.stat), assignTo, env,
                             disk)

\* mutant: missing local files are skipped instead of reported
Validate_skipMissing(fileList, assignTo) ==
    IF InvalidAssignType(assignTo) # None
    THEN S_ERROR(<<"Invalid sandbox type", InvalidAssignType(assignTo)>>)
    ELSE IF ~fileList.isList
    THEN S_ERROR(<<"fileList must be a list or tuple!">>)
    ELSE LET scan == ScanFileList(fileList.items, <<>>, <<>>) IN
         IF scan.unsupported # None
         THEN S_ERROR(<<"Objects of type can't be part of InputSandbox", scan.unsupported>>)
         ELSE S_OK(scan.files2Upload)

\* lines 90-118: the checks made before anything is created
Validate(fileList, assignTo) ==
    IF InvalidAssignType(assignTo) # None
    THEN S_ERROR(<<"Invalid sandbox type", InvalidAssignType(assignTo)>>)
    ELSE IF ~fileList.isList
    THEN S_ERROR(<<"fileList must be a list or tuple!">>)
    ELSE LET scan == ScanFileList(fileList.items, <<>>, <<>>) IN
         IF scan.unsupported # None
         THEN S_ERROR(<<"Objects of type can't be part of InputSandbox", scan.unsupported>>)
         ELSE IF scan.errorFiles # <<>>
              THEN S_ERROR(<<"Failed to locate files", scan.errorFiles>>)
              ELSE S_OK(scan.files2Upload)

\* lines 78-160: the whole call, on the disk state "disk"
uploadFilesAsSandbox(fileList, sizeLimit, assignTo, env, disk) ==
    LET checked == Validate(fileList, assignTo) IN
    IF ~checked.OK
    THEN UpOutcome("returned", checked, None, 0, disk, <<>>)
    ELSE LET tmpFilePath == IF env.mkstemp THEN mkstemp(disk) ELSE None IN
         IF tmpFilePath = None
         THEN UpOutcome("returned", S_ERROR(<<"Cannot create temporary file">>),
                        None, 0, disk, <<>>)
         ELSE BuildAndSend(checked.Value, sizeLimit, assignTo, env, tmpFilePath,
                           disk \cup {tmpFilePath})

\* lines 70-74
uploadFilesAsSandboxForJob(fileList, jobId, sbType, sizeLimit, env, disk) ==
    IF sbType \notin validSandboxTypes
    THEN UpOutcome("returned", S_ERROR(<<"Invalid Sandbox type", sbType>>), None, 0, disk, <<>>)
    ELSE uploadFilesAsSandbox(fileList, sizeLimit, << <<EntityId(jobId), sbType>> >>,
                              env, disk)

\* staging files left on disk by earlier uploads of the process
InitDisks == {{}, {TmpNames[1]}, Range(TmpNames)}

\* the environment outcomes to draw for a call: a call that validation rejects
\* (lines 90-118) reaches no operating-system or transfer call
EnvsFor(fileList, assignTo) ==
    IF Validate(fileList, assignTo).OK THEN UploadEnvs
    ELSE {[mkstemp |-> TRUE, stat |-> "stat1", tar |-> TRUE, size |-> 1, send |-> TRUE,
           unlink |-> TRUE]}

InitUpload ==
    /\ OtherClassesIdle
    /\ dlPc = "off" /\ dlArgs = <<>> /\ dlOut = DlIdle
    /\ NoJobState
    /\ upPc = "call"
    /\ upArgs \in [fileList : FileLists, sizeLimit : SizeLimits, disk : InitDisks]
    /\ fs = upArgs.disk
    /\ upOut = UpIdle

\* the caller runs uploadFilesAsSandbox(fileList, sizeLimit, assignTo)
Upload ==
    /\ upPc = "call"
    /\ \E assignTo \in AssignMaps :
        \E env \in EnvsFor(upArgs.fileList, assignTo) :
          LET out == uploadFilesAsSandbox(upArgs.fileList, upArgs.sizeLimit, assignTo,
                                          env, fs)
          IN  /\ upPc' = out.pc
              /\ fs' = out.fs
              /\ upOut' = [op |-> "uploadFilesAsSandbox", assignTo |-> assignTo,
                           result |-> out.result, tmpFilePath |-> out.tmpFilePath,
                           size |-> out.size, sent |-> out.sent,
                           oserror |-> out.oserror]
    /\ UNCHANGED <<upArgs, dlVars, jobVars, otherVars>>

\* the caller runs uploadFilesAsSandboxForJob(fileList, jobId, sbType, sizeLimit)
UploadForJob ==
    /\ upPc = "call"
    /\ \E jobId \in JobIds, sbType \in SandboxTypeArgs :
        \E env \in EnvsFor(upArgs.fileList, << <<EntityId(jobId), sbType>> >>) :
          LET out == uploadFilesAsSandboxForJob(upArgs.fileList, jobId, sbType,
                                                upArgs.sizeLimit, env, fs)
          IN  /\ upPc' = out.pc
              /\ fs' = out.fs
              /\ upOut' = [op |-> "uploadFilesAsSandboxForJob",
                           assignTo |-> << <<EntityId(jobId), sbType>> >>,
                           result |-> out.result, tmpFilePath |-> out.tmpFilePath,
                           size |-> out.size, sent |-> out.sent,
                           oserror |-> out.oserror]
    /\ UNCHANGED <<upArgs, dlVars, jobVars, otherVars>>

NextUpload == Upload \/ UploadForJob

SpecUpload == InitUpload /\ [][NextUpload]_vars

\* ========================================================= download
\* the characters sandbox locations are made of
LocChars == {"S", "B", ":", "|", "/"}

SbLocations == SeqsUpTo(LocChars, MaxLocLen)

\* str.find: the 0-based index of the first occurrence of sub in s, or -1
find(s, sub) ==
    LET hits == {i \in 0..(Len(s) - Len(sub)) : SubSeq(s, i + 1, i + Len(sub)) = sub}
    IN  IF hits = {} THEN -1 ELSE CHOOSE i \in hits : \A j \in hits : i <= j

RECURSIVE split(_, _)
\* str.split(sep) for a one-character sep: the pieces between the separators
split(s, sep) ==
    LET k == find(s, <<sep>>) IN
    IF k = -1 THEN <<s>>
    ELSE <<SubSeq(s, 1, k)>> \o split(SubSeq(s, k + 2, Len(s)), sep)

RECURSIVE join(_, _)
\* sep.join(parts)
join(sep, parts) ==
    IF parts = <<>> THEN <<>>
    ELSE IF Len(parts) = 1 THEN parts[1]
         ELSE parts[1] \o <<sep>> \o join(sep, Tail(parts))

InvalidLocation == [ok |-> FALSE, seName |-> <<>>, sePFN |-> <<>>]

\* mutant: only the piece after the first "|" is kept as the physical name
ParseLocation_dropRest(sbLocation) ==
    IF find(sbLocation, <<"S", "B", ":">>) # 0 THEN InvalidLocation
    ELSE LET sbSplit == split(SubSeq(sbLocation, 4, Len(sbLocation)), "|") IN
         IF Len(sbSplit) < 2 THEN InvalidLocation
         ELSE [ok |-> TRUE, seName |-> sbSplit[1], sePFN |-> sbSplit[2]]

\* lines 169-176: the location is invalid (ok is FALSE), or it names seName
\* and sePFN
ParseLocation(sbLocation) ==
    IF find(sbLocation, <<"S", "B", ":">>) # 0 THEN InvalidLocation
    ELSE LET sbSplit == split(SubSeq(sbLocation, 4, Len(sbLocation)), "|") IN
         IF Len(sbSplit) < 2 THEN InvalidLocation
         ELSE [ok |-> TRUE, seName |-> sbSplit[1], sePFN |-> join("|", Tail(sbSplit))]

RECURSIVE pathBasename(_)
\* os.path.basename: the text after the last "/"
pathBasename(path) ==
    LET k == find(path, <<"/">>) IN
    IF k = -1 THEN path ELSE pathBasename(SubSeq(path, k + 2, Len(path)))

\* outcomes of the environment during one download
DownloadEnvs == [mkdtemp : BOOLEAN,      \* tempfile.mkdtemp succeeds
                 getFile : BOOLEAN,      \* se.getFile's result["OK"]
                 staged  : BOOLEAN,      \* the fetched archive is at tarFileName
                 read    : BOOLEAN,      \* reading an existing archive succeeds
                 extract : {"ok", "OSError", "TarError"},  \* tarfile.open/extract
                 unlink  : BOOLEAN,      \* os.unlink of an existing file succeeds
                 rmdir   : BOOLEAN]      \* os.rmdir of an emptied directory succeeds

\* what one download did: how it ended, its result, the temp directory it
\* created (None: none), whether that directory and the archive staged in it
\* are on disk afterwards, and the se.getFile calls it made
DlOutcome(pc, result, tmpSBDir, dirLeft, fileLeft, fetched) ==
    [pc |-> pc, result |-> result, tmpSBDir |-> tmpSBDir, dirLeft |-> dirLeft,
     fileLeft |-> fileLeft, fetched |-> fetched]

\* os.unlink(tarFileName); os.rmdir(tmpSBDir): what is left, and whether an
\* OSError came out (the rmdir is not reached when the unlink raises)
RemoveStaged(staged, env) ==
    IF ~(staged /\ env.unlink)
    THEN [dirLeft |-> TRUE, fileLeft |-> staged, oserror |-> TRUE]
    ELSE [dirLeft |-> ~env.rmdir, fileLeft |-> FALSE, oserror |-> ~env.rmdir]

\* lines 193-202: the in-memory branch
ReadInMemory(tmpSBDir, staged, env, fetched) ==
    LET rm == RemoveStaged(staged, env) IN
    IF rm.oserror
    THEN \* the OSError of the finally block replaces the pending return
         DlOutcome("raised", S_ERROR(<<"OSError">>), tmpSBDir, rm.dirLeft, rm.fileLeft,
                   fetched)
    ELSE IF env.read
         THEN DlOutcome("returned", S_OK(<<"data">>), tmpSBDir, rm.dirLeft, rm.fileLeft,
                        fetched)
         ELSE DlOutcome("returned", S_ERROR(<<"Failed to read the sandbox archive">>),
                        tmpSBDir, rm.dirLeft, rm.fileLeft, fetched)

\* lines 215-233: extraction and the cleanup after it
Unpack(tmpSBDir, staged, env, fetched) ==
    IF staged /\ env.extract = "TarError"
    THEN \* tarfile.TarError is no OSError: it leaves the function at line 217
         DlOutcome("raised", S_ERROR(<<"TarError">>), tmpSBDir, TRUE, staged, fetched)
    ELSE LET result == IF staged /\ env.extract = "ok"
                       THEN S_OK(<<"sandboxSize">>)
                       ELSE S_ERROR(<<"Could not open bundle">>)
             rm     == RemoveStaged(staged, env)
         IN  DlOutcome("returned", result, tmpSBDir, rm.dirLeft, rm.fileLeft, fetched)

\* lines 178-233: from the parsed location on
FetchAndOpen(loc, inMemory, unpack, env) ==
    IF ~env.mkdtemp
    THEN DlOutcome("returned", S_ERROR(<<"Cannot create temporary file">>), None,
                   FALSE, FALSE, <<>>)
    ELSE LET tmpSBDir == "TMSB.1"
             fetched  == << [seName |-> loc.seName, sePFN |-> loc.sePFN,
                             localPath |-> tmpSBDir] >>
             sbFileName == pathBasename(loc.sePFN)
             staged   == env.staged /\ sbFileName # <<>>
         IN  IF ~env.getFile
             THEN DlOutcome("returned", S_ERROR(<<"getFile failed">>), tmpSBDir,
                            TRUE, FALSE, fetched)
             ELSE IF inMemory
                  THEN ReadInMemory(tmpSBDir, staged, env, fetched)
                  ELSE IF ~unpack
                       THEN DlOutcome("returned", S_OK(<<tmpSBDir, sbFileName>>),
                                      tmpSBDir, TRUE, staged, fetched)
                       ELSE Unpack(tmpSBDir, staged, env, fetched)

\* lines 165-233: the whole call
downloadSandbox(sbLocation, inMemory, unpack, env) ==
    LET loc == ParseLocation(sbLocation) IN
    IF ~loc.ok
    THEN DlOutcome("returned", S_ERROR(<<"Invalid sandbox URL">>), None, FALSE, FALSE,
                   <<>>)
    ELSE FetchAndOpen(loc, inMemory, unpack, env)

\* the environment outcomes to draw for a download: an invalid location
\* (lines 169-174) reaches no operating-system or storage call
DlEnvsFor(sbLocation) ==
    IF ParseLocation(sbLocation).ok THEN DownloadEnvs
    ELSE {[mkdtemp |-> TRUE, getFile |-> TRUE, staged |-> TRUE, read |-> TRUE,
           extract |-> "ok", unlink |-> TRUE, rmdir |-> TRUE]}

InitDownload ==
    /\ OtherClassesIdle
    /\ upPc = "off" /\ upArgs = UpNoArgs /\ fs = {} /\ upOut = UpIdle
    /\ NoJobState
    /\ dlPc = "call"
    /\ dlArgs \in SbLocations
    /\ dlOut = DlIdle

\* the caller runs downloadSandbox(sbLocation, inMemory=..., unpack=...)
Download ==
    /\ dlPc = "call"
    /\ \E inMemory \in BOOLEAN, unpack \in BOOLEAN :
        \E env \in DlEnvsFor(dlArgs) :
          LET out == downloadSandbox(dlArgs, inMemory, unpack, env)
          IN  /\ dlPc' = out.pc
              /\ dlOut' = [inMemory |-> inMemory, unpack |-> unpack,
                           result |-> out.result, tmpSBDir |-> out.tmpSBDir,
                           dirLeft |-> out.dirLeft, fileLeft |-> out.fileLeft,
                           fetched |-> out.fetched]
    /\ UNCHANGED <<dlArgs, upVars, jobVars, otherVars>>

NextDownload == Download

SpecDownload == InitDownload /\ [][NextDownload]_vars

\* ============================================== constructor and jobs
\* the smdb argument of the constructor: False (the default), True, or a
\* SandboxMetadataDB object of the caller's
SmdbArgs == {"False", "True", "CallerDB"}

\* how lines 44-54 end: the connection is fine, _getConnection answers not OK,
\* or one of ImportError, RuntimeError, AttributeError is caught
InitOutcomes == {"ok", "notOK", "caught"}

\* the SandboxMetadataDB instance made by the n-th run of line 47
NewDB(n) == [kind |-> "SandboxMetadataDB", n |-> n]

rpcClient == Obj("rpcClient")

\* the truth value Python gives the class attribute
Truthy(handle) == handle.kind \notin {None, "False"}

\* lines 40-54: the class attribute when the constructor returns
SmdbAfterInit(smdbArg, outcome, run) ==
    IF smdbArg = "True"
    THEN IF outcome = "ok" THEN NewDB(run) ELSE Obj("False")
    ELSE Obj(smdbArg)

\* lines 25-54: a client is constructed
Construct ==
    /\ Len(clients) < MaxClients
    /\ \E smdbArg \in SmdbArgs, outcome \in InitOutcomes :
          LET run   == IF smdbArg = "True" THEN initLog.runs + 1 ELSE initLog.runs
              after == SmdbAfterInit(smdbArg, outcome, run)
          IN  /\ smdb' = after
              /\ initLog' = [runs   |-> run,
                             failed |-> initLog.failed
                                        \/ (smdbArg = "True" /\ outcome # "ok")]
              /\ clients' = Append(clients, [smdb |-> smdbArg, handle |-> after])
    /\ UNCHANGED <<ctor, registry, jobPc, jobOut, upVars, dlVars, otherVars>>

\* sandbox locations held by the registry
LocA == <<"S", "B", ":", "S", "|", "B">>

LocB == <<"S", "B", ":", "B", "|", "/", "S">>

ValidPairs == {<<LocA, "Input">>, <<LocB, "Input">>, <<LocA, "Output">>}

SbPairs == ValidPairs \cup {<<LocB, "Bogus">>}

SbLists == SeqsUpTo(SbPairs, MaxSbList)

OwnerNames == {"", "alice"}

OwnerGroups == {"", "dirac_user"}

Entities == {EntityId(j) : j \in JobIds}

\* the answers a service call can give
ServiceReplies == {S_OK(<<"done">>), S_ERROR(<<"service error">>)}

\* mutant: only the first pair of sbList is looked at
InvalidSbType_firstOnly(sbList) ==
    IF sbList # <<>> /\ sbList[1][2] \notin validSandboxTypes THEN sbList[1][2] ELSE None

\* the first type of sbList that is no valid sandbox type (lines 245-247)
InvalidSbType(sbList) ==
    LET bad == {i \in 1..Len(sbList) : sbList[i][2] \notin validSandboxTypes}
    IN  IF bad = {} THEN None
        ELSE sbList[CHOOSE i \in bad : \A j \in bad : i <= j][2]

\* what a job operation did: its result, the service calls it made and the
\* registry afterwards
JobOutcome(result, calls, reg) == [result |-> result, calls |-> calls, registry |-> reg]

\* SandboxMetadataDB / SandboxStore service: assignSandboxesToEntities adds the
\* pairs to the entity's record when it answers OK (reg holds the records of
\* the entities that are followed)
assignSandboxesToEntities(reg, eId, sbList, reply) ==
    IF reply.OK /\ eId \in DOMAIN reg
    THEN [reg EXCEPT ![eId] = @ \o sbList]
    ELSE reg

\* mutant: the owner's group is not looked at
AssignTarget_nameOnly(handle, ownerName, ownerGroup) ==
    IF Truthy(handle) /\ ownerName # "" THEN handle ELSE rpcClient

\* lines 248-250: where the assignment goes
AssignTarget(handle, ownerName, ownerGroup) ==
    IF Truthy(handle) /\ ownerName # "" /\ ownerGroup # ""
    THEN handle ELSE rpcClient

\* lines 238-250
assignSandboxesToJob(handle, reg, jobId, sbList, ownerName, ownerGroup, reply) ==
    LET eId == EntityId(jobId) IN
    IF InvalidSbType(sbList) # None
    THEN JobOutcome(S_ERROR(<<"Invalid Sandbox type", InvalidSbType(sbList)>>), <<>>, reg)
    ELSE LET call == [on |-> AssignTarget(handle, ownerName, ownerGroup),
                      method |-> "assignSandboxesToEntities",
                      args |-> << <<eId, sbList>>, ownerName, ownerGroup >>,
                      reply |-> reply]
         IN  JobOutcome(reply, <<call>>,
                        assignSandboxesToEntities(reg, eId, sbList, reply))

\* a client runs assignSandboxesToJob with a job id of JobSet and an sbList
\* of ListSet
AssignSandboxesToJob(JobSet, ListSet) ==
    /\ clients # <<>>
    /\ \E c \in 1..Len(clients), jobId \in JobSet, sbList \in ListSet,
          ownerName \in OwnerNames, ownerGroup \in OwnerGroups,
          reply \in ServiceReplies :
          LET out == assignSandboxesToJob(smdb, registry, jobId, sbList, ownerName,
                                          ownerGroup, reply)
          IN  /\ registry' = out.registry
              /\ jobOut' = [JobIdle EXCEPT !.op = "assignSandboxesToJob",
                                           !.client = c, !.jobId = jobId,
                                           !.sbList = sbList,
                                           !.ownerName = ownerName,
                                           !.ownerGroup = ownerGroup,
                                           !.calls = out.calls,
                                           !.result = out.result]
    /\ jobPc' = "returned"
    /\ UNCHANGED <<smdb, clients, initLog, ctor, upVars, dlVars, otherVars>>

\* ------------------------------------------------ the process-wide handle
HandleJobIds == {[type |-> "int", digits |-> <<"7">>]}

HandleSbLists == {<< <<LocA, "Input">> >>, << <<LocA, "Output">>, <<LocB, "Bogus">> >>}

InitHandle ==
    /\ OtherClassesIdle
    /\ upPc = "off" /\ upArgs = UpNoArgs /\ fs = {} /\ upOut = UpIdle
    /\ dlPc = "off" /\ dlArgs = <<>> /\ dlOut = DlIdle
    /\ smdb = Obj(None) /\ clients = <<>> /\ initLog = [runs |-> 0, failed |-> FALSE]
    /\ ctor = CtorIdle
    /\ registry = <<>>
    /\ jobPc = "call" /\ jobOut = JobIdle

\* an assignment in a process that keeps constructing clients (the records
\* of the service are not followed here: the registry has no entry)
HandleAssign == AssignSandboxesToJob(HandleJobIds, HandleSbLists)

NextHandle == Construct \/ HandleAssign

SpecHandle == InitHandle /\ [][NextHandle]_vars

\* ------------------------------------- a constructor beside an assignment
\* One thread runs assignSandboxesToJob on a client constructed earlier while
\* a second thread constructs further clients.  Each action is one read or
\* write of the class attribute together with the thread-local work around it.

InitThreads ==
    /\ OtherClassesIdle
    /\ upPc = "off" /\ upArgs = UpNoArgs /\ fs = {} /\ upOut = UpIdle
    /\ dlPc = "off" /\ dlArgs = <<>> /\ dlOut = DlIdle
    /\ \E smdbArg \in SmdbArgs :
          /\ smdb = SmdbAfterInit(smdbArg, "ok", 1)
          /\ clients = <<[smdb |-> smdbArg, handle |-> smdb]>>
          /\ initLog = [runs |-> IF smdbArg = "True" THEN 1 ELSE 0, failed |-> FALSE]
    /\ ctor = CtorIdle
    /\ registry = <<>>
    /\ jobPc = "call" /\ jobOut = JobIdle

\* lines 35-43: the class attribute is set to the smdb argument; the call ends
\* here unless the argument is True
CtorBegin ==
    /\ ctor.pc = "idle" /\ Len(clients) < MaxClients
    /\ \E smdbArg \in SmdbArgs :
          /\ smdb' = Obj(smdbArg)
          /\ IF smdbArg = "True"
             THEN ctor' = [pc |-> "new"] /\ clients' = clients
             ELSE /\ ctor' = CtorIdle
                  /\ clients' = Append(clients, [smdb |-> smdbArg, handle |-> smdb'])
    /\ UNCHANGED <<initLog, registry, jobPc, jobOut, upVars, dlVars, otherVars>>

\* lines 44-47, 53-54: the import and SandboxMetadataDB(); the new instance is
\* stored in the class attribute, or the exception is caught
CtorNewDB ==
    /\ ctor.pc = "new"
    /\ \E made \in BOOLEAN :
          /\ initLog' = [runs |-> initLog.runs + 1, failed |-> initLog.failed \/ ~made]
          /\ IF made
             THEN /\ smdb' = NewDB(initLog.runs + 1)
                  /\ ctor' = [pc |-> "connect"] /\ clients' = clients
             ELSE /\ smdb' = Obj("False")
                  /\ ctor' = CtorIdle
                  /\ clients' = Append(clients, [smdb |-> "True", handle |-> smdb'])
    /\ UNCHANGED <<registry, jobPc, jobOut, upVars, dlVars, otherVars>>

\* lines 48-54: the connection check on the instance
CtorConnect ==
    /\ ctor.pc = "connect"
    /\ \E outcome \in InitOutcomes :
          /\ smdb' = IF outcome = "ok" THEN smdb ELSE Obj("False")
          /\ initLog' = [initLog EXCEPT !.failed = @ \/ outcome # "ok"]
          /\ clients' = Append(clients, [smdb |-> "True", handle |-> smdb'])
    /\ ctor' = CtorIdle
    /\ UNCHANGED <<registry, jobPc, jobOut, upVars, dlVars, otherVars>>

\* lines 244-248 and 250: the validation and the decision on the class
\* attribute as it is read at line 248; the remote call is made at once, the
\* local call is still to come
AssignDecide ==
    /\ jobPc = "call"
    /\ \E c \in 1..Len(clients), jobId \in HandleJobIds, sbList \in HandleSbLists,
          ownerName \in OwnerNames, ownerGroup \in OwnerGroups,
          reply \in ServiceReplies :
          LET args == [JobIdle EXCEPT !.op = "assignSandboxesToJob", !.client = c,
                                      !.jobId = jobId, !.sbList = sbList,
                                      !.ownerName = ownerName,
                                      !.ownerGroup = ownerGroup]
          IN  IF InvalidSbType(sbList) = None
                 /\ AssignTarget(smdb, ownerName, ownerGroup) # rpcClient
              THEN jobPc' = "local" /\ jobOut' = args
              ELSE LET out == assignSandboxesToJob(smdb, registry, jobId, sbList,
                                                   ownerName, ownerGroup, reply)
                   IN  /\ jobPc' = "returned"
                       /\ jobOut' = [args EXCEPT !.calls = out.calls,
                                                  !.result = out.result]
    /\ UNCHANGED <<smdb, clients, initLog, ctor, registry, upVars, dlVars, otherVars>>

\* line 249: the class attribute is read again and the call is made on what
\* it holds now; a bool has no assignSandboxesToEntities (AttributeError)
AssignLocal ==
    /\ jobPc = "local"
    /\ IF smdb.kind \in {"True", "False"}
       THEN /\ jobPc' = "raised"
            /\ jobOut' = [jobOut EXCEPT !.result = S_ERROR(<<"AttributeError">>)]
       ELSE \E reply \in ServiceReplies :
              /\ jobPc' = "returned"
              /\ jobOut' = [jobOut EXCEPT
                     !.calls = <<[on |-> smdb, method |-> "assignSandboxesToEntities",
                                  args |-> << <<EntityId(jobOut.jobId), jobOut.sbList>>,
                                              jobOut.ownerName, jobOut.ownerGroup >>,
                                  reply |-> reply]>>,
                     !.result = reply]
    /\ UNCHANGED <<smdb, clients, initLog, ctor, registry, upVars, dlVars, otherVars>>

NextThreads == CtorBegin \/ CtorNewDB \/ CtorConnect \/ AssignDecide \/ AssignLocal

SpecThreads == InitThreads /\ [][NextThreads]_vars

\* ------------------------------------------------ the assignment records
\* the job ids unassignJobs is given: one id, or a list of ids
UnassignArgs == {[isList |-> FALSE, ids |-> <<j>>] : j \in JobIds}
                \cup {[isList |-> TRUE, ids |-> l] : l \in SeqsUpTo(JobIds, 2)}

\* SandboxStore service: unassignEntities drops the records of the entities
\* when it answers OK; an entity without a record is no error
unassignEntities(reg, entitiesList, reply) ==
    IF reply.OK
    THEN [e \in DOMAIN reg |-> IF e \in Range(entitiesList) THEN <<>> ELSE reg[e]]
    ELSE reg

\* lines 254-258: the entities list built from the argument
EntitiesList(jobIdList) ==
    IF ~jobIdList.isList /\ jobIdList.ids[1].type = "int"
    THEN <<EntityId(jobIdList.ids[1])>>
    ELSE IF ~jobIdList.isList
         THEN \* "for jobId in jobIdList" over a str visits its characters
              [i \in 1..Len(jobIdList.ids[1].digits) |->
                  <<"J", "o", "b", ":">> \o <<jobIdList.ids[1].digits[i]>>]
         ELSE [i \in 1..Len(jobIdList.ids) |-> EntityId(jobIdList.ids[i])]

\* lines 252-259
unassignJobs(reg, jobIdList, reply) ==
    LET entitiesList == EntitiesList(jobIdList)
        call == [on |-> rpcClient, method |-> "unassignEntities",
                 args |-> <<entitiesList>>, reply |-> reply]
    IN  JobOutcome(reply, <<call>>, unassignEntities(reg, entitiesList, reply))

\* SandboxStore service: getSandboxesAssignedToEntity answers with the
\* mapping from each sandbox type the entity holds to its locations in
\* assignment order; an entity without a record is reported as not found
getSandboxesAssignedToEntity(reg, eId, rpcOK) ==
    IF ~rpcOK THEN S_ERROR(<<"service error">>)
    ELSE IF eId \notin DOMAIN reg \/ reg[eId] = <<>>
         THEN S_ERROR(<<"EntityNotFound">>)
         ELSE LET rec   == reg[eId]
                  types == {rec[i][2] : i \in 1..Len(rec)}
                  ofType(t) == SelectSeqBy(rec, {pr \in Range(rec) : pr[2] = t})
              IN  S_OK([t \in types |->
                          [i \in 1..Len(ofType(t)) |-> ofType(t)[i][1]]])

\* the outcomes drawn for each downloadSandbox call of a job download
EnvFine == [mkdtemp |-> TRUE, getFile |-> TRUE, staged |-> TRUE, read |-> TRUE,
            extract |-> "ok", unlink |-> TRUE, rmdir |-> TRUE]

JobDlEnvs == {EnvFine,
              [EnvFine EXCEPT !.getFile = FALSE],
              [EnvFine EXCEPT !.read = FALSE, !.extract = "OSError"]}

\* what a job download did: how it ended, its result, the downloadSandbox
\* calls made (location and result) and the storage fetches made, in order,
\* and the answer getSandboxesAssignedToEntity gave (line 263)
JobDlOutcome(pc, result, downloads, fetched) ==
    [pc |-> pc, result |-> result, downloads |-> downloads, fetched |-> fetched,
     resolved |-> S_ERROR(<<>>)]

\* one downloadSandbox call of a job download
DlCall(sbLocation, out) == [sbLocation |-> sbLocation, result |-> out.result]

RECURSIVE DownloadEach_continueOnError(_, _, _, _, _, _)
\* mutant: a failed download is skipped and the loop goes on
DownloadEach_continueOnError(locs, envs, unpack, downloadedSandboxesLoc, downloads, fetched) ==
    IF locs = <<>>
    THEN JobDlOutcome("returned", S_OK(downloadedSandboxesLoc), downloads, fetched)
    ELSE LET out == downloadSandbox(Head(locs), FALSE, unpack, Head(envs)) IN
         IF out.pc = "raised"
         THEN JobDlOutcome(out.pc, out.result, Append(downloads, DlCall(Head(locs), out)),
                           fetched \o out.fetched)
         ELSE DownloadEach_continueOnError(Tail(locs), Tail(envs), unpack,
                           IF out.result.OK
                           THEN Append(downloadedSandboxesLoc, out.result.Value)
                           ELSE downloadedSandboxesLoc,
                           Append(downloads, DlCall(Head(locs), out)),
                           fetched \o out.fetched)

RECURSIVE DownloadEach(_, _, _, _, _, _)
\* lines 280-286: the on-disk loop over the locations still to fetch
DownloadEach(locs, envs, unpack, downloadedSandboxesLoc, downloads, fetched) ==
    IF locs = <<>>
    THEN JobDlOutcome("returned", S_OK(downloadedSandboxesLoc), downloads, fetched)
    ELSE LET out == downloadSandbox(Head(locs), FALSE, unpack, Head(envs)) IN
         IF out.pc = "raised" \/ ~out.result.OK
         THEN JobDlOutcome(out.pc, out.result, Append(downloads, DlCall(Head(locs), out)),
                           fetched \o out.fetched)
         ELSE DownloadEach(Tail(locs), Tail(envs), unpack,
                           Append(downloadedSandboxesLoc, out.result.Value),
                           Append(downloads, DlCall(Head(locs), out)),
                           fetched \o out.fetched)

\* mutant: the oldest sandbox of the list is taken
Newest_first(locations) == locations[1]

\* line 277: sbDict[sbType][-1]
Newest(locations) == locations[Len(locations)]

\* mutant: an answer that is not OK is taken for an entity without sandboxes
downloadSandboxForJob_errorAsEmpty(reg, jobId, sbType, inMemory, unpack, rpcOK, envs) ==
    LET result == getSandboxesAssignedToEntity(reg, EntityId(jobId), rpcOK)
        sbDict == IF result.OK THEN result.Value ELSE <<>>
    IN  IF sbType \notin DOMAIN sbDict
        THEN [JobDlOutcome("returned",
                           S_ERROR(<<"No sandbox found for job", sbType, jobId.digits>>),
                           <<>>, <<>>) EXCEPT !.resolved = result]
        ELSE IF inMemory
             THEN LET sbLocation == Newest(sbDict[sbType])
                      out == downloadSandbox(sbLocation, inMemory, unpack, envs[1])
                  IN  [JobDlOutcome(out.pc, out.result, <<DlCall(sbLocation, out)>>, out.fetched)
                          EXCEPT !.resolved = result]
             ELSE [DownloadEach(sbDict[sbType], envs, unpack, <<>>, <<>>, <<>>)
                      EXCEPT !.resolved = result]

\* lines 261-286
downloadSandboxForJob(reg, jobId, sbType, inMemory, unpack, rpcOK, envs) ==
    LET result == getSandboxesAssignedToEntity(reg, EntityId(jobId), rpcOK) IN
    IF ~result.OK
    THEN [JobDlOutcome("returned", result, <<>>, <<>>) EXCEPT !.resolved = result]
    ELSE LET sbDict == result.Value IN
         IF sbType \notin DOMAIN sbDict
         THEN [JobDlOutcome("returned",
                            S_ERROR(<<"No sandbox found for job", sbType, jobId.digits>>),
                            <<>>, <<>>) EXCEPT !.resolved = result]
         ELSE IF inMemory
              THEN LET sbLocation == Newest(sbDict[sbType])
                       out == downloadSandbox(sbLocation, inMemory, unpack, envs[1])
                   IN  [JobDlOutcome(out.pc, out.result, <<DlCall(sbLocation, out)>>, out.fetched)
                           EXCEPT !.resolved = result]
              ELSE [DownloadEach(sbDict[sbType], envs, unpack, <<>>, <<>>, <<>>)
                       EXCEPT !.resolved = result]

\* the records the service holds before the operation under check: job 7
\* holds up to MaxRecord input sandboxes, job 42 none or one output sandbox
Registries ==
    {[e \in Entities |-> IF e = Job7 THEN r7 ELSE r42] :
        r7 \in SeqsUpTo({<<LocA, "Input">>, <<LocB, "Input">>}, MaxRecord),
        r42 \in {<<>>, << <<LocA, "Output">> >>}}

InitRegistry ==
    /\ OtherClassesIdle
    /\ upPc = "off" /\ upArgs = UpNoArgs /\ fs = {} /\ upOut = UpIdle
    /\ dlPc = "off" /\ dlArgs = <<>> /\ dlOut = DlIdle
    /\ \E smdbArg \in {"False", "True"} :
          /\ smdb = SmdbAfterInit(smdbArg, "ok", 1)
          /\ clients = <<[smdb |-> smdbArg, handle |-> smdb]>>
          /\ initLog = [runs |-> IF smdbArg = "True" THEN 1 ELSE 0, failed |-> FALSE]
    /\ ctor = CtorIdle
    /\ registry \in Registries
    /\ jobPc = "call" /\ jobOut = JobIdle

\* the client runs assignSandboxesToJob
RegistryAssign == jobPc = "call" /\ AssignSandboxesToJob(JobIds, SbLists)

\* the client runs unassignJobs(jobIdList)
UnassignJobs ==
    /\ jobPc = "call"
    /\ \E jobIdList \in UnassignArgs, reply \in ServiceReplies :
          LET out == unassignJobs(registry, jobIdList, reply)
          IN  /\ registry' = out.registry
              /\ jobOut' = [JobIdle EXCEPT !.op = "unassignJobs", !.client = 1,
                                           !.jobId = jobIdList,
                                           !.calls = out.calls,
                                           !.result = out.result]
    /\ jobPc' = "returned"
    /\ UNCHANGED <<smdb, clients, initLog, ctor, upVars, dlVars, otherVars>>

\* the client runs downloadSandboxForJob(jobId, sbType, inMemory=, unpack=)
DownloadSandboxForJob ==
    /\ jobPc = "call"
    /\ \E jobId \in JobIds, sbType \in SandboxTypeArgs, inMemory \in BOOLEAN,
          unpack \in BOOLEAN, rpcOK \in BOOLEAN :
        \E envs \in [1..Len(registry[EntityId(jobId)]) -> JobDlEnvs] :
          LET out == downloadSandboxForJob(registry, jobId, sbType, inMemory, unpack,
                                           rpcOK, envs)
          IN  /\ jobPc' = out.pc
              /\ jobOut' = [JobIdle EXCEPT !.op = "downloadSandboxForJob",
                                           !.client = 1, !.jobId = jobId,
                                           !.sbType = sbType,
                                           !.inMemory = inMemory, !.unpack = unpack,
                                           !.calls =
                                               <<[on |-> rpcClient,
                                                  method |-> "getSandboxesAssignedToEntity",
                                                  args |-> <<EntityId(jobId)>>,
                                                  reply |-> out.resolved]>>,
                                           !.downloads = out.downloads,
                                           !.fetched = out.fetched,
                                           !.result = out.result]
    /\ UNCHANGED <<smdb, clients, initLog, ctor, registry, upVars, dlVars, otherVars>>

NextRegistry == RegistryAssign \/ UnassignJobs \/ DownloadSandboxForJob

SpecRegistry == InitRegistry /\ [][NextRegistry]_vars

\* ==================================================== RemoteBackend
\* (LoggingSystem/private/backends/RemoteBackend.py)  Producers put messages
\* on the queue, the backend thread bundles them and hands the bundles to the
\* log server, a caller may wait in flush().  Queue.Queue makes each put, get
\* and empty atomic; every action below holds one of them together with the
\* thread-local work that follows it.

\* line 17: self._maxBundledMsgs
maxBundledMsgs == 20

\* the values LogLevels gives to the levels of the messages (line 30,
\* msg.getLevel() through getLevelValue): negative, zero and positive
LevelValues == {-40, 0, 30}

\* the value LogLevels gives to 'ERROR' (line 18)
MinLevels == {0, 30}

\* the levels of the messages the producers log: message i has level
\* pattern[1] when i is odd and pattern[2] when i is even
LevelPatterns == [1..2 -> LevelValues]

LevelOf(pattern, i) == pattern[2 - (i % 2)]

abs(x) == IF x < 0 THEN -x ELSE x

\* lines 50-51
testLevel(minLevel, level) == abs(level) >= minLevel

\* mutant: the message is bundled whatever its level
Bundled_untested(bundle, msg, minLevel) == Append(bundle, msg)

\* lines 30-31 and 35-36: the message joins the bundle if its level passes
Bundled(bundle, msg, minLevel) ==
    IF testLevel(minLevel, msg.level) THEN Append(bundle, msg) ELSE bundle

\* lines 11-21: a backend whose thread has started, with the messages the
\* producers are going to log
NewBackend(limit, pattern, minLevel) ==
    [pc |-> "get", queue |-> <<>>, bundle |-> <<>>, n |-> 0, limit |-> limit,
     levels |-> pattern, minLevel |-> minLevel, delivered |-> <<>>, calls |-> 0,
     flush |-> [pc |-> "idle", barrier |-> 0]]

\* lines 23-24: a producer logs the next message
DoMessage ==
    /\ rb.pc # "off" /\ rb.n < rb.limit
    /\ rb' = [rb EXCEPT !.n = @ + 1,
                        !.queue = Append(@, [id |-> rb.n + 1,
                                             level |-> LevelOf(rb.levels, rb.n + 1)])]
    /\ UNCHANGED <<idp, upVars, dlVars, jobVars>>

\* lines 27-31: the thread starts a bundle with the message the blocking get
\* hands it
BackendGet ==
    /\ rb.pc = "get" /\ rb.queue # <<>>
    /\ rb' = [rb EXCEPT !.pc = "loop",
                        !.queue = Tail(@),
                        !.bundle = Bundled(<<>>, Head(rb.queue), rb.minLevel)]
    /\ UNCHANGED <<idp, upVars, dlVars, jobVars>>

\* lines 32-40: one turn of the inner loop; the thread takes a further
\* message, or leaves the loop and hands a non-empty bundle to the server
\* (calls counts the addMessages calls modulo 2)
BackendMore ==
    /\ rb.pc = "loop"
    /\ IF Len(rb.bundle) < maxBundledMsgs /\ rb.queue # <<>>
       THEN rb' = [rb EXCEPT !.queue = Tail(@),
                             !.bundle = Bundled(@, Head(rb.queue), rb.minLevel)]
       ELSE IF Len(rb.bundle) > 0
            THEN rb' = [rb EXCEPT !.pc = "get", !.bundle = <<>>,
                                  !.delivered = @ \o rb.bundle,
                                  !.calls = (@ + 1) % 2]
            ELSE rb' = [rb EXCEPT !.pc = "get"]
    /\ UNCHANGED <<idp, upVars, dlVars, jobVars>>

\* line 53: a caller enters flush(); barrier is the number of messages logged
\* before
FlushCall ==
    /\ rb.pc # "off" /\ rb.flush.pc = "idle"
    /\ rb' = [rb EXCEPT !.flush = [pc |-> "waiting", barrier |-> rb.n]]
    /\ UNCHANGED <<idp, upVars, dlVars, jobVars>>

\* lines 54-56: flush() finds the queue empty and returns (it sleeps and
\* looks again otherwise)
FlushReturn ==
    /\ rb.pc # "off" /\ rb.flush.pc = "waiting"
    /\ rb.queue = <<>>
    /\ rb' = [rb EXCEPT !.flush.pc = "returned"]
    /\ UNCHANGED <<idp, upVars, dlVars, jobVars>>

\* most messages logged beside a flush() call
MaxFlushMsgs == 3

\* most messages logged while the bundling is followed
MaxMsgs == 22

InitBackend(limit) ==
    /\ upPc = "off" /\ upArgs = UpNoArgs /\ fs = {} /\ upOut = UpIdle
    /\ dlPc = "off" /\ dlArgs = <<>> /\ dlOut = DlIdle
    /\ NoJobState
    /\ idp = IdpFresh
    /\ \E pattern \in LevelPatterns, minLevel \in MinLevels :
          rb = NewBackend(limit, pattern, minLevel)

InitFlush == InitBackend(MaxFlushMsgs)

NextFlush == DoMessage \/ BackendGet \/ BackendMore \/ FlushCall \/ FlushReturn

SpecFlush == InitFlush /\ [][NextFlush]_vars

InitBatch == InitBackend(MaxMsgs)

NextBatch == DoMessage \/ BackendGet \/ BackendMore

SpecBatch == InitBatch /\ [][NextBatch]_vars

\* ======================================================= IdProvider
\* (Resources/IdProvider/IdProvider.py)  idp.meta is the one dict object the
\* class attribute DEFAULT_METADATA refers to; an instance's parameters
\* attribute is a reference to a dict object.

\* most IdProvider instances constructed
MaxProviders == 3

MetaValues == {"A", "B"}

\* the keyword arguments of a constructor call
KwargSets == [MetaKeys -> MetaValues \cup {Absent}]

\* dict.update: the keys of other are set in d
update(d, other) == [k \in MetaKeys |-> IF other[k] # Absent THEN other[k] ELSE d[k]]

\* dict.get(key): None for a key the dict does not hold
get(d, key) == IF d[key] = Absent THEN None ELSE d[key]

\* lines 19-20: the dict DEFAULT_METADATA refers to, after meta.update(kwargs)
MetaAfterInit(meta, kwargs) == update(meta, kwargs)

\* lines 16-22 and 28-34: an instance is constructed; its parameters
\* attribute refers to the dict of the class, its name is read at once
NewIdProvider ==
    /\ Len(idp.instances) < MaxProviders
    /\ \E kwargs \in KwargSets :
          LET meta == MetaAfterInit(idp.meta, kwargs) IN
          idp' = [meta |-> meta,
                  instances |-> Append(idp.instances,
                                       [kwargs |-> kwargs,
                                        parameters |-> "DEFAULT_METADATA",
                                        name |-> get(meta, "ProviderName")])]
    /\ UNCHANGED <<rb, upVars, dlVars, jobVars>>

\* the dict an instance's parameters attribute refers to, as it is now
Parameters(instance) ==
    IF instance.parameters = "DEFAULT_METADATA" THEN idp.meta ELSE EmptyDict

InitProviders ==
    /\ upPc = "off" /\ upArgs = UpNoArgs /\ fs = {} /\ upOut = UpIdle
    /\ dlPc = "off" /\ dlArgs = <<>> /\ dlOut = DlIdle
    /\ NoJobState
    /\ OtherClassesIdle

NextProviders == NewIdProvider

SpecProviders == InitProviders /\ [][NextProviders]_vars

\* ------------------------------------------------- assignment records: claims
AllTypesValid(sbList) == \A i \in 1..Len(sbList) : sbList[i][2] \in {"Input", "Output"}

\* C7: an assignSandboxesToJob call whose sbList holds, at any position, a
\* type outside {Input, Output} returns an error, makes no
\* assignSandboxesToEntities call (on the metadata handle or on the service)
\* and leaves every record as it was: an entity without a record is still
\* reported as not found afterwards.
C7_AssignValidatesAllOrNothing ==
    [][(jobOut'.op = "assignSandboxesToJob" /\ ~AllTypesValid(jobOut'.sbList)) =>
          /\ ~jobOut'.result.OK
          /\ jobOut'.calls = <<>>
          /\ registry' = registry
          /\ \A e \in Entities :
                registry[e] = <<>> =>
                    getSandboxesAssignedToEntity(registry', e, TRUE).Message
                        = <<"EntityNotFound">>
      ]_vars

\* C7 witness: with a metadata handle and both owner fields, a list with a
\* valid pair followed by a Bogus one was refused for an entity without record
C7_Witness ==
    /\ jobOut.op = "assignSandboxesToJob"
    /\ jobOut.sbList = << <<LocA, "Input">>, <<LocB, "Bogus">> >>
    /\ smdb.kind = "SandboxMetadataDB"
    /\ jobOut.ownerName # "" /\ jobOut.ownerGroup # ""
    /\ registry[EntityId(jobOut.jobId)] = <<>>
    /\ ~jobOut.result.OK /\ jobOut.calls = <<>>

JobDownloadReturned == jobPc = "returned" /\ jobOut.op = "downloadSandboxForJob"

\* the service answered the resolve call (no transport failure)
ServiceAnswered ==
    jobOut.calls # <<>> /\ jobOut.calls[1].reply.Message # <<"service error">>

HoldsType(rec, t) == \E i \in 1..Len(rec) : rec[i][2] = t

UnassignReturned == jobPc = "returned" /\ jobOut.op = "unassignJobs"

\* C11 as stated: unassignJobs makes exactly one unassignEntities call, on the
\* service client, whose list holds "Job:<id>" for each id of the argument in
\* order; a single id x, integer or string, gives the list ["Job:x"], the same
\* as the one-element list [x] does.
C11_SingleIdNormalisedToList ==
    UnassignReturned =>
        /\ Len(jobOut.calls) = 1
        /\ jobOut.calls[1].on = rpcClient
        /\ jobOut.calls[1].method = "unassignEntities"
        /\ jobOut.calls[1].args =
              << [i \in 1..Len(jobOut.jobId.ids) |->
                     <<"J", "o", "b", ":">> \o jobOut.jobId.ids[i].digits] >>

\* the locations an entity holds with type t, in assignment order
LocationsOfType(rec, t) ==
    LET idx == {i \in 1..Len(rec) : rec[i][2] = t}
        nth(k) == CHOOSE i \in idx : Cardinality({j \in idx : j <= i}) = k
    IN  [k \in 1..Cardinality(idx) |-> rec[nth(k)][1]]

\* a job download that got as far as the downloads: the service answered and
\* the entity holds a sandbox of the requested type
JobDownloadResolved ==
    /\ jobPc \in {"returned", "raised"} /\ jobOut.op = "downloadSandboxForJob"
    /\ ServiceAnswered
    /\ HoldsType(registry[EntityId(jobOut.jobId)], jobOut.sbType)

\* the storage fetch asks for the backend and the physical name of location
FetchOf(fetch, location) ==
    fetch.seName \o <<"|">> \o fetch.sePFN = SubSeq(location, 4, Len(location))

AssignStep == clients' = clients /\ jobOut'.op = "assignSandboxesToJob"

HandleConfigured == smdb.kind \in {"SandboxMetadataDB", "CallerDB"}

\* C9: a valid assignSandboxesToJob call makes exactly one
\* assignSandboxesToEntities call, with ({"Job:<jobId>": sbList}, ownerName,
\* ownerGroup), and returns its answer; the call goes to the shared metadata
\* handle if a handle is configured and both owner fields are non-empty, and
\* to the service client otherwise.
C9_AssignServedLocallyOrRemotely ==
    [][(AssignStep /\ AllTypesValid(jobOut'.sbList)) =>
          /\ Len(jobOut'.calls) = 1
          /\ jobOut'.calls[1].method = "assignSandboxesToEntities"
          /\ jobOut'.calls[1].args =
                << << <<"J", "o", "b", ":">> \o jobOut'.jobId.digits, jobOut'.sbList >>,
                   jobOut'.ownerName, jobOut'.ownerGroup >>
          /\ jobOut'.calls[1].on =
                IF HandleConfigured /\ jobOut'.ownerName # "" /\ jobOut'.ownerGroup # ""
                THEN smdb ELSE rpcClient
          /\ jobOut'.result = jobOut'.calls[1].reply
      ]_vars

\* C9 witness: with a SandboxMetadataDB instance as the handle, a call that
\* names the owner but no group went to the service client
C9_Witness ==
    /\ jobOut.op = "assignSandboxesToJob" /\ Len(jobOut.calls) = 1
    /\ smdb.kind = "SandboxMetadataDB"
    /\ jobOut.ownerName = "alice" /\ jobOut.ownerGroup = ""
    /\ jobOut.calls[1].on = rpcClient

\* C10 as stated: once an initialisation of the handle has failed, no later
\* step runs the initialisation again, and every later assignSandboxesToJob
\* call goes to the service client.
C10_NoInitialisationAfterFailure ==
    [][initLog.failed =>
          /\ initLog'.runs = initLog.runs
          /\ AssignStep =>
                \A i \in 1..Len(jobOut'.calls) : jobOut'.calls[i].on = rpcClient
      ]_vars

\* C20 as stated: a valid assignSandboxesToJob call with both owner fields,
\* made by a client whose construction left a working direct handle, goes to
\* the handle that client was constructed with, whatever clients have been
\* constructed since.
C20_ConstructionLeavesOtherClientsAlone ==
    (jobOut.op = "assignSandboxesToJob" /\ AllTypesValid(jobOut.sbList)
        /\ jobOut.ownerName # "" /\ jobOut.ownerGroup # ""
        /\ clients[jobOut.client].handle.kind \in {"SandboxMetadataDB", "CallerDB"}) =>
        /\ Len(jobOut.calls) = 1
        /\ jobOut.calls[1].on = clients[jobOut.client].handle

\* the step in which an assignSandboxesToJob call with a valid sbList reads
\* the shared handle to decide between the local and the remote call
DecisionStep ==
    /\ jobPc = "call" /\ jobPc' # "call"
    /\ jobOut'.op = "assignSandboxesToJob" /\ AllTypesValid(jobOut'.sbList)

ConstructionUnderWay == ctor.pc # "idle"

\* C19 as stated: when an assignSandboxesToJob call takes its local/remote
\* decision while another thread is inside a constructor call with smdb=True,
\* the shared handle it reads is False or a metadata handle whose connection
\* check is over; it is neither the placeholder True nor the instance whose
\* check is still to run.
C19_DecisionNeverSeesPartialHandle ==
    [][(DecisionStep /\ ConstructionUnderWay) =>
          /\ smdb.kind \in {"False", "SandboxMetadataDB", "CallerDB"}
          /\ ctor.pc # "connect"
      ]_vars

\* ----------------------------------------------------- download: claims
DownloadEnded == dlPc \in {"returned", "raised"}

\* C2 as stated: whenever a downloadSandbox call with inMemory or unpack that
\* created its temp directory has ended, the directory and the archive staged
\* in it are gone.
C2_TempDirRemovedOnEveryExit ==
    (DownloadEnded /\ (dlOut.inMemory \/ dlOut.unpack) /\ dlOut.tmpSBDir # None) =>
        (~dlOut.dirLeft /\ ~dlOut.fileLeft)

\* the location format of C6, read off the characters
HasSBPrefix(d) == Len(d) >= 3 /\ d[1] = "S" /\ d[2] = "B" /\ d[3] = ":"

BarsAfterPrefix(d) == {i \in 4..Len(d) : d[i] = "|"}

WellFormed(d) == HasSBPrefix(d) /\ BarsAfterPrefix(d) # {}

FirstBar(d) == CHOOSE i \in BarsAfterPrefix(d) : \A j \in BarsAfterPrefix(d) : i <= j

InvalidURLError ==
    dlPc = "returned" /\ ~dlOut.result.OK
    /\ dlOut.result.Message = <<"Invalid sandbox URL">>

\* C6: downloadSandbox rejects a location as invalid exactly when it does not
\* start with "SB:" or has no "|" after that prefix; a rejected location
\* creates no temp directory and fetches nothing; every fetch of an accepted
\* one asks the backend named between "SB:" and the first "|" for the physical
\* name made of all the text after that "|".
C6_LocationParsing ==
    DownloadEnded =>
        /\ InvalidURLError <=> ~WellFormed(dlArgs)
        /\ InvalidURLError => (dlOut.tmpSBDir = None /\ dlOut.fetched = <<>>)
        /\ \A i \in 1..Len(dlOut.fetched) :
              /\ dlOut.fetched[i].seName = SubSeq(dlArgs, 4, FirstBar(dlArgs) - 1)
              /\ dlOut.fetched[i].sePFN = SubSeq(dlArgs, FirstBar(dlArgs) + 1, Len(dlArgs))

\* C6 witness: "SB:B||" is not in reach of the bound, "SB:||" is: an empty
\* backend name and a physical name that is itself a "|"
C6_Witness ==
    /\ dlPc = "returned"
    /\ dlArgs = <<"S", "B", ":", "|", "|">>
    /\ Len(dlOut.fetched) = 1
    /\ dlOut.fetched[1].sePFN = <<"|">>

\* two environments that differ at most in how the cleanup calls end
SameButCleanup(e1, e2) ==
    e2 \in {[e1 EXCEPT !.unlink = u, !.rmdir = r] : u \in BOOLEAN, r \in BOOLEAN}

\* C16 as stated: a downloadSandbox call with unpack=True (and not inMemory)
\* never ends with an escaping exception, an extraction failure being
\* returned as the could-not-open-bundle error; and whatever the cleanup of
\* lines 227-231 does, the call ends the same way with the same result.
C16_ExtractionFailuresReturned ==
    /\ (DownloadEnded /\ ~dlOut.inMemory /\ dlOut.unpack) => dlPc = "returned"
    /\ dlPc = "call" =>
          \A e1 \in DlEnvsFor(dlArgs), e2 \in DlEnvsFor(dlArgs) :
              SameButCleanup(e1, e2) =>
                  LET o1 == downloadSandbox(dlArgs, FALSE, TRUE, e1)
                      o2 == downloadSandbox(dlArgs, FALSE, TRUE, e2)
                  IN  o1.pc = o2.pc /\ o1.result = o2.result

\* an in-memory download whose fetch succeeded, so that it went on to read
\* the staged archive
InMemoryReadEnded ==
    /\ DownloadEnded /\ dlOut.inMemory /\ dlOut.tmpSBDir # None
    /\ dlOut.result.Message # <<"getFile failed">>

\* C17 as stated: an in-memory downloadSandbox that has fetched its archive
\* returns either the bytes read or the read-failure error, the latter also
\* when the staged file is absent or unreadable, and in both cases the staged
\* file and its temp directory are gone when it ends.
C17_InMemoryCleanedOnEveryExit ==
    InMemoryReadEnded =>
        /\ dlPc = "returned"
        /\ \/ dlOut.result.OK /\ dlOut.result.Value = <<"data">>
           \/ ~dlOut.result.OK
              /\ dlOut.result.Message = <<"Failed to read the sandbox archive">>
        /\ ~dlOut.dirLeft /\ ~dlOut.fileLeft

\* ------------------------------------------------------- upload: claims
UploadEnded == upPc \in {"returned", "raised"}

StagingCreated == UploadEnded /\ upOut.tmpFilePath # None

StagingPresent == upOut.tmpFilePath \in fs

SizeLimitError == ~upOut.result.OK /\ upOut.result.Message = <<"Size over the limit">>

BadAssignTo(assignTo) == \E i \in 1..Len(assignTo) : assignTo[i][2] \notin {"Input", "Output"}

BadFileList(fileList) ==
    \/ ~fileList.isList
    \/ \E i \in 1..Len(fileList.items) :
          LET it == fileList.items[i] IN
          \/ it.type \notin {"str", "StringIO"}
          \/ it.type = "str" /\ it.v \notin LfnStrings /\ it.v \notin LocalFiles

\* C3: an upload whose assignTo holds an invalid type, or whose fileList is no
\* list, holds an unsupported element or names a missing local path, returns an
\* error, creates no staging file, leaves the disk as it was and calls no sendFile.
C3_ValidationBeforeSideEffects ==
    (UploadEnded /\ (BadAssignTo(upOut.assignTo) \/ BadFileList(upArgs.fileList))) =>
        /\ upPc = "returned" /\ ~upOut.result.OK
        /\ upOut.tmpFilePath = None
        /\ fs = upArgs.disk
        /\ upOut.sent = <<>>

\* C3 witness: a list with a missing path after a valid one was rejected
C3_Witness ==
    /\ upPc = "returned" /\ ~upOut.result.OK
    /\ upArgs.fileList.isList /\ Len(upArgs.fileList.items) = 2
    /\ upArgs.fileList.items[1].v = "a.txt" /\ upArgs.fileList.items[2].v = "gone1"
    /\ ~BadAssignTo(upOut.assignTo)

\* C4: when sizeLimit > 0 and the built archive is larger than sizeLimit, the
\* upload returns the size-limit error carrying the staging path, the staging
\* file is still on disk and sendFile was not called.
C4_SizeLimitRejection ==
    (UploadEnded /\ upArgs.sizeLimit > 0 /\ upOut.size > upArgs.sizeLimit) =>
        /\ upPc = "returned" /\ SizeLimitError
        /\ upOut.tmpFilePath # None
        /\ upOut.result.SandboxFileName = upOut.tmpFilePath
        /\ StagingPresent
        /\ upOut.sent = <<>>

\* C4 witness: an archive of size 3 was built under sizeLimit 2
C4_Witness ==
    upPc = "returned" /\ upArgs.sizeLimit = 2 /\ upOut.size = 3 /\ SizeLimitError

\* C5: with sizeLimit = 0 no upload ends with the size-limit error, and every
\* upload that built its archive (whatever its size) calls sendFile.
C5_ZeroLimitNeverRejects ==
    (UploadEnded /\ upArgs.sizeLimit = 0) =>
        /\ ~SizeLimitError
        /\ upOut.size > 0 => Len(upOut.sent) = 1

\* C5 witness: with sizeLimit 0 the largest archive went to sendFile
C5_Witness ==
    /\ upPc = "returned" /\ upArgs.sizeLimit = 0
    /\ upOut.size = 3 /\ Len(upOut.sent) = 1

\* C14: an upload makes at most one sendFile call, also when the transfer
\* fails; the call carries the staging path, a name ending in ".tar.bz2" and
\* the whole assignTo map of the upload; the upload makes no service call of
\* its own and touches no record; an upload that reports success has sent
\* its assignment; uploadFilesAsSandboxForJob sends a map with the single
\* entry "Job:<jobId>" -> sbType.
C14_NameAndAssignmentSentTogether ==
    UploadEnded =>
        /\ Len(upOut.sent) <= 1
        /\ \A i \in 1..Len(upOut.sent) :
              /\ upOut.sent[i].path = upOut.tmpFilePath
              /\ upOut.sent[i].name.suffix = ".tar.bz2"
              /\ upOut.sent[i].assignTo = upOut.assignTo
        /\ upOut.result.OK => Len(upOut.sent) = 1
        /\ jobOut.calls = <<>> /\ registry = <<>>
        /\ upOut.op = "uploadFilesAsSandboxForJob" =>
              /\ Len(upOut.assignTo) = 1
              /\ SubSeq(upOut.assignTo[1][1], 1, 4) = <<"J", "o", "b", ":">>
              /\ Len(upOut.assignTo[1][1]) > 4
              /\ upOut.sent # <<>> => upOut.assignTo[1][2] \in {"Input", "Output"}

\* C14 witness: uploadFilesAsSandboxForJob for job 42 sent the bundle together
\* with {"Job:42": "Output"}, and the transfer failed without a second try
C14_Witness ==
    /\ upPc = "returned" /\ upOut.op = "uploadFilesAsSandboxForJob"
    /\ Len(upOut.sent) = 1 /\ ~upOut.result.OK
    /\ upOut.sent[1].assignTo = << <<Job42, "Output">> >>

RECURSIVE MissingPaths(_)
\* the local paths of a file list that do not exist, in list order
MissingPaths(items) ==
    IF items = <<>> THEN <<>>
    ELSE (IF Head(items).type = "str" /\ Head(items).v \notin LfnStrings
             /\ Head(items).v \notin LocalFiles
          THEN <<Head(items).v>> ELSE <<>>) \o MissingPaths(Tail(items))

HasUnsupported(items) ==
    \E i \in 1..Len(items) : items[i].type \notin {"str", "StringIO"}

MissingFilesError ==
    /\ upPc = "returned" /\ ~upOut.result.OK
    /\ upOut.result.Message[1] = "Failed to locate files"
    /\ upOut.result.Message[2] = MissingPaths(upArgs.fileList.items)

\* C15 as stated: whenever at least one local path of fileList does not
\* exist, the upload returns the missing-files error, which names every
\* missing path of the list.
C15_MissingFilesAlwaysReported ==
    (UploadEnded /\ MissingPaths(upArgs.fileList.items) # <<>>) => MissingFilesError

\* C15 as amended: when every assignTo type is valid and every element of
\* fileList is a str or a StringIO, an upload with at least one missing local
\* path returns the missing-files error naming every missing path in list
\* order; an invalid assignTo type or an element of another type is reported
\* instead, and that error names no missing path.
C15_MissingFilesReportedTogether ==
    (UploadEnded /\ MissingPaths(upArgs.fileList.items) # <<>>) =>
        /\ upPc = "returned" /\ ~upOut.result.OK
        /\ IF BadAssignTo(upOut.assignTo) \/ HasUnsupported(upArgs.fileList.items)
           THEN upOut.result.Message[1] \in
                    {"Invalid sandbox type", "Invalid Sandbox type",
                     "Objects of type can't be part of InputSandbox"}
           ELSE MissingFilesError

\* C15 witness: both paths of a two-element list are missing and both are named
C15_Witness ==
    /\ upPc = "returned" /\ ~BadAssignTo(upOut.assignTo)
    /\ Len(upArgs.fileList.items) = 2
    /\ upArgs.fileList.items[1].v = "gone1" /\ upArgs.fileList.items[2].v = "gone2"
    /\ upOut.result.Message = <<"Failed to locate files", <<"gone1", "gone2">> >>

\* the in-archive names of a file list are distinct
DistinctNames(files2Upload) ==
    LET members == TarMembers(files2Upload, DefaultStat) IN
    \A i \in 1..Len(members), j \in 1..Len(members) :
        members[i].name = members[j].name => i = j

\* the environments in which an upload gets as far as sendFile
SendingEnvs == {env \in UploadEnvs : env.mkstemp /\ env.tar}

\* C18 as stated: when an upload of a list with distinct in-archive names has
\* called sendFile, every other run of the upload over the same list (same
\* names, same contents), whatever the staging path, the file metadata and
\* the other outcomes of that run, hands the same canonical name to sendFile.
C18_SameContentSameName ==
    (UploadEnded /\ upOut.sent # <<>>
        /\ DistinctNames(Validate(upArgs.fileList, <<>>).Value)) =>
        \A env \in SendingEnvs, disk \in InitDisks :
            LET other == uploadFilesAsSandbox(upArgs.fileList, upArgs.sizeLimit,
                                              upOut.assignTo, env, disk)
            IN  \A i \in 1..Len(other.sent) : other.sent[i].name = upOut.sent[1].name

\* --------------------------------------------------- RemoteBackend: claims
\* message i has been handed to the log server
Delivered(i) == \E k \in 1..Len(rb.delivered) : rb.delivered[k].id = i

\* C21 as stated: once flush() has returned, every message logged before
\* flush() was called whose level passes the minimum-level test has been
\* handed to the log server.
C21_FlushIsDeliveryBarrier ==
    (rb.pc # "off" /\ rb.flush.pc = "returned") =>
        \A i \in 1..rb.flush.barrier :
            testLevel(rb.minLevel, LevelOf(rb.levels, i)) => Delivered(i)

\* the level of a message is at or above the minimum level, levels being
\* compared by magnitude as the backend's level test compares them
AtOrAboveMinLevel(msg, minLevel) == msg.level >= minLevel \/ -msg.level >= minLevel

\* the messages the server has received are all at or above the minimum
\* level and come in the order they were logged, none of them twice
DeliveredInOrder(delivered, minLevel) ==
    /\ \A k \in 1..Len(delivered) : AtOrAboveMinLevel(delivered[k], minLevel)
    /\ \A k \in 1..(Len(delivered) - 1) : delivered[k].id < delivered[k + 1].id

C23_InstancesIsolated ==
    /\ \A i \in 1..Len(idp.instances) :
          /\ Parameters(idp.instances[i]) = idp.instances[i].kwargs
          /\ idp.instances[i].name =
                IF idp.instances[i].kwargs["ProviderName"] = "<absent>" THEN "None"
                ELSE idp.instances[i].kwargs["ProviderName"]
    /\ \A k \in MetaKeys : idp.meta[k] = "<absent>"

====
